---- MODULE Spec2Model ----
(***************************************************************************)
(* Model of the CEP -> weather pipeline: service-a (input handler),        *)
(* service-b (orchestration handler) and the legacy single service.        *)
(*                                                                         *)
(* Strings are sequences of one-character strings.  Error texts are        *)
(* sequences of words, so that strings.Contains is a real search.          *)
(***************************************************************************)
EXTENDS Integers, Sequences, FiniteSets, TLC

VARIABLES
    req,        \* per request: inputs, handler positions, spans, calls, responses
    nextTrace,  \* the trace-id generator shared by all requests
    vin,        \* input string handed to the three validators
    vout        \* results of the three validators on vin

vars == <<req, nextTrace, vin, vout>>

-----------------------------------------------------------------------------
(* Bounds *)

\* longest run of digits in a validator input
MaxDigits == 9
\* most non-digit characters in a validator input
MaxExtra == 2
\* requests in flight at once in the concurrent specification
NumReq == 2

-----------------------------------------------------------------------------
(* Characters and strings *)

\* \d of the regular expression `^\d{8}$`
CEPDigits == 8

DigitChars == {"7"}
SpaceChars == {" ", "\t"}
\* bytes url.Parse rejects ("invalid control character in URL")
CtlChars == {"\t"}
OtherChars == {"x"}
ExtraChars == {"-"} \cup SpaceChars \cup OtherChars

\* strings.ReplaceAll(cep, "-", "")
ReplaceAllDash(s) ==
    SelectSeq(s, LAMBDA c : c # "-")

RECURSIVE TrimLeft(_)
TrimLeft(s) ==
    IF s # <<>> /\ Head(s) \in SpaceChars THEN TrimLeft(Tail(s)) ELSE s

RECURSIVE TrimRight(_)
TrimRight(s) ==
    IF s # <<>> /\ s[Len(s)] \in SpaceChars
    THEN TrimRight(SubSeq(s, 1, Len(s) - 1))
    ELSE s

\* strings.TrimSpace(cep)
TrimSpace(s) ==
    TrimRight(TrimLeft(s))

\* the matcher of `^\d{8}$`: from position i, n digits are still to be read,
\* then the text must end
RECURSIVE MatchDigits(_, _, _)
MatchDigits(s, i, n) ==
    IF n = 0 THEN i = Len(s) + 1
    ELSE /\ i <= Len(s)
         /\ s[i] \in DigitChars
         /\ MatchDigits(s, i + 1, n - 1)

\* the expression without its end anchor: `^\d{8}`
MatchCEPRegexpNoEnd(s) ==
    /\ Len(s) >= CEPDigits
    /\ \A i \in 1..CEPDigits : s[i] \in DigitChars

\* regexp.MatchString(`^\d{8}$`, cep)
MatchCEPRegexp(s) ==
    MatchDigits(s, 1, CEPDigits)

\* service-a
isValidCEPFormat(cep) ==
    MatchCEPRegexp(TrimSpace(ReplaceAllDash(cep)))

\* service-b
isValidCEP(cep) ==
    MatchCEPRegexp(TrimSpace(ReplaceAllDash(cep)))

\* legacy service
legacyIsValidCEP(cep) ==
    MatchCEPRegexp(TrimSpace(ReplaceAllDash(cep)))

-----------------------------------------------------------------------------
(* Validator inputs: every string with at most d digits and e other chars *)

RECURSIVE StrSet(_, _)
StrSet(d, e) ==
    {<<>>}
    \cup (IF d = 0 THEN {}
          ELSE {<<c>> \o t : c \in DigitChars, t \in StrSet(d - 1, e)})
    \cup (IF e = 0 THEN {}
          ELSE {<<c>> \o t : c \in ExtraChars, t \in StrSet(d, e - 1)})

ValidatorInputs == StrSet(MaxDigits, MaxExtra)

InitValid ==
    /\ vin \in ValidatorInputs
    /\ vout = <<>>
    /\ req = <<>>
    /\ nextTrace = 1

\* vout records the validators that have run: 1 service-a, 2 service-b, 3 legacy
ValidateA ==
    /\ Len(vout) = 0
    /\ vout' = Append(vout, isValidCEPFormat(vin))
    /\ UNCHANGED <<req, nextTrace, vin>>

ValidateB ==
    /\ Len(vout) = 1
    /\ vout' = Append(vout, isValidCEP(vin))
    /\ UNCHANGED <<req, nextTrace, vin>>

ValidateLegacy ==
    /\ Len(vout) = 2
    /\ vout' = Append(vout, legacyIsValidCEP(vin))
    /\ UNCHANGED <<req, nextTrace, vin>>

NextValid ==
    \/ ValidateA
    \/ ValidateB
    \/ ValidateLegacy

SpecValid == InitValid /\ [][NextValid]_vars

-----------------------------------------------------------------------------
(* Tracing: spans, contexts and the per-request event log *)

\* a context that carries no span (trace 0 is no trace)
NoCtx == [trace |-> 0, span |-> <<>>]

\* tracer.Start(ctx, name): a child of the span in ctx, or a new root with
\* the fresh trace id when ctx carries no span
StartSpan(s, svc, name, lib, ctx, fresh) ==
    LET sp == [name   |-> name,
               svc    |-> svc,
               lib    |-> lib,
               trace  |-> IF ctx.trace = 0 THEN fresh ELSE ctx.trace,
               id     |-> <<s.rid, Len(s.spans) + 1>>,
               parent |-> ctx.span,
               ends   |-> 0,
               errs   |-> 0,
               attrs  |-> {}]
    IN  [s EXCEPT !.spans = Append(@, sp),
                  !.events = Append(@, <<"start", name>>)]

SpanIdx(s, name) ==
    CHOOSE i \in 1..Len(s.spans) : s.spans[i].name = name

HasSpan(s, name) ==
    \E i \in 1..Len(s.spans) : s.spans[i].name = name

\* the context of the span started last, whichever span was asked for
SpanCtxOfLatest(s, name) ==
    [trace |-> s.spans[Len(s.spans)].trace,
     span  |-> s.spans[Len(s.spans)].id]

\* the context returned by tracer.Start next to the span
SpanCtx(s, name) ==
    [trace |-> s.spans[SpanIdx(s, name)].trace,
     span  |-> s.spans[SpanIdx(s, name)].id]

\* span.End()
EndSpan(s, name) ==
    [s EXCEPT !.spans[SpanIdx(s, name)].ends = @ + 1,
              !.events = Append(@, <<"end", name>>)]

\* span.RecordError(err)
RecordError(s, name) ==
    [s EXCEPT !.spans[SpanIdx(s, name)].errs = @ + 1,
              !.events = Append(@, <<"error", name>>)]

\* span.SetAttributes(...)
SetAttributes(s, name, keys) ==
    [s EXCEPT !.spans[SpanIdx(s, name)].attrs = @ \cup keys]

\* a transport that writes no traceparent header
InjectNothing(ctx) ==
    <<>>

\* propagation.TraceContext{}: Inject writes the context of the active span
\* as the traceparent header (version, trace id, parent span id, flags)
Inject(ctx) ==
    IF ctx.trace = 0 THEN <<>> ELSE <<"00", ctx.trace, ctx.span, "01">>

\* an Extract that finds no header: every inbound request starts a new trace
ExtractNothing(hdr) ==
    NoCtx

\* propagation.TraceContext{}: Extract parses the traceparent header; a request
\* without a well-formed header yields a context without a span
Extract(hdr) ==
    IF Len(hdr) = 4 THEN [trace |-> hdr[2], span |-> hdr[3]] ELSE NoCtx

-----------------------------------------------------------------------------
(* Error texts (sequences of words) and strings.Contains *)

Contains(hay, needle) ==
    \E i \in 0..(Len(hay) - Len(needle)) :
        SubSeq(hay, i + 1, i + Len(needle)) = needle

NoErr == <<>>

ErrInvalidZipcode == <<"invalid", "zipcode">>
ErrCanNotFind == <<"can", "not", "find", "zipcode">>
CauseParse == <<"parse", "URL:", "net/url:", "invalid", "control", "character", "in", "URL">>
CauseRefused == <<"Get", "URL:", "dial", "tcp:", "connection", "refused">>
CauseTimeout == <<"Get", "URL:", "context", "deadline", "exceeded">>
CauseCanceled == <<"Get", "URL:", "context", "canceled">>
CauseJSON == <<"invalid", "character", "looking", "for", "beginning", "of", "value">>

TransportCause(kind) ==
    CASE kind = "refused"  -> CauseRefused
      [] kind = "canceled" -> CauseCanceled
      [] OTHER             -> CauseTimeout

-----------------------------------------------------------------------------
(* HTTP plumbing *)

\* http.NewRequestWithContext -> url.Parse: a control byte in the URL is an error
URLParses(path) ==
    \A i \in 1..Len(path) : path[i] \notin CtlChars

\* URL.EscapedPath on the client: a space goes out as %20, a tab as %09
RECURSIVE EscapePath(_)
EscapePath(s) ==
    IF s = <<>> THEN <<>>
    ELSE IF Head(s) = " " THEN <<"%", "2", "0">> \o EscapePath(Tail(s))
    ELSE IF Head(s) = "\t" THEN <<"%", "0", "9">> \o EscapePath(Tail(s))
    ELSE <<Head(s)>> \o EscapePath(Tail(s))

\* the server's parse of the request line: %20 and %09 come back as the bytes
RECURSIVE UnescapePath(_)
UnescapePath(s) ==
    IF s = <<>> THEN <<>>
    ELSE IF Len(s) >= 3 /\ SubSeq(s, 1, 3) = <<"%", "2", "0">>
         THEN <<" ">> \o UnescapePath(SubSeq(s, 4, Len(s)))
    ELSE IF Len(s) >= 3 /\ SubSeq(s, 1, 3) = <<"%", "0", "9">>
         THEN <<"\t">> \o UnescapePath(SubSeq(s, 4, Len(s)))
    ELSE <<Head(s)>> \o UnescapePath(Tail(s))

\* url.QueryEscape(localidade): a space goes out as +, a tab as %09
RECURSIVE QueryEscape(_)
QueryEscape(s) ==
    IF s = <<>> THEN <<>>
    ELSE IF Head(s) = " " THEN <<"+">> \o QueryEscape(Tail(s))
    ELSE IF Head(s) = "\t" THEN <<"%", "0", "9">> \o QueryEscape(Tail(s))
    ELSE <<Head(s)>> \o QueryEscape(Tail(s))

NoResp == [status |-> 0, body |-> [message |-> ""]]

\* w.WriteHeader(status); json.NewEncoder(w).Encode(ErrorResponse{Message: m})
ErrorResponse(status, m) ==
    [status |-> status, body |-> [message |-> m]]

\* json.NewEncoder(w).Encode(TemperatureResponse{...}) of service-a and service-b
EncodeTemperatureResponse(t) ==
    [city |-> t.City, temp_C |-> t.TempC, temp_F |-> t.TempF, temp_K |-> t.TempK]

\* a decoder whose struct has no city field
DecodeTemperatureResponseNoCity(j) ==
    [City  |-> <<>>,
     TempC |-> IF "temp_C" \in DOMAIN j THEN j.temp_C ELSE 0,
     TempF |-> IF "temp_F" \in DOMAIN j THEN j.temp_F ELSE 0,
     TempK |-> IF "temp_K" \in DOMAIN j THEN j.temp_K ELSE 0]

\* json.NewDecoder(resp.Body).Decode(&tempResp) of service-a: keys are matched
\* to the struct tags, a key that is absent leaves the zero value
DecodeTemperatureResponse(j) ==
    [City  |-> IF "city" \in DOMAIN j THEN j.city ELSE <<>>,
     TempC |-> IF "temp_C" \in DOMAIN j THEN j.temp_C ELSE 0,
     TempF |-> IF "temp_F" \in DOMAIN j THEN j.temp_F ELSE 0,
     TempK |-> IF "temp_K" \in DOMAIN j THEN j.temp_K ELSE 0]

-----------------------------------------------------------------------------
(* Request state *)

NoMsg == [sent |-> FALSE, path |-> <<>>, traceparent |-> <<>>]
NoRet == [kind |-> "none", status |-> 0, val |-> [City |-> <<>>, TempC |-> 0, TempF |-> 0, TempK |-> 0], err |-> NoErr]
NoCEPResp == [kind |-> "none", status |-> 0, erro |-> FALSE, localidade |-> <<>>]
NoLookup == [kind |-> "none", err |-> NoErr, localidade |-> <<>>, name |-> <<>>, temp |-> 0, out |-> "none"]

\* a request before any handler has seen it
NewRequest(r, entry, body, path, hdr, env) ==
    [rid     |-> r,
     env     |-> env,        \* which provider outcomes this request may meet
     entry   |-> entry,      \* "A" service-a, "B" service-b called directly, "L" legacy
     body    |-> body,       \* the POST body handed to service-a
     hdr     |-> hdr,        \* the traceparent header of the inbound request
     pcA     |-> IF entry = "A" THEN "recv" ELSE "none",
     pcB     |-> IF entry = "B" THEN "recv" ELSE "none",
     pcL     |-> IF entry = "L" THEN "recv" ELSE "none",
     ctxA    |-> "live",     \* r.Context() of the request in service-a: "live" or "canceled"
     ctxB    |-> "live",     \* r.Context() of the request in service-b
     wire    |-> IF entry = "A" THEN NoMsg
                 ELSE [sent |-> TRUE, path |-> path, traceparent |-> hdr],
     spans   |-> <<>>,
     events  |-> <<>>,
     calls   |-> <<>>,       \* upstream HTTP calls made, in order
     cepReq  |-> <<>>,       \* cepReq.CEP once decoded
     recvB   |-> [kind |-> "none", resp |-> NoResp],   \* what httpClient.Do returned to callServiceB
     retB    |-> NoRet,      \* what callServiceB returned
     cepResp |-> NoCEPResp,  \* what the postal registry answered
     cepInfo |-> NoLookup,   \* what getCEPInfo returned
     weather |-> NoLookup,   \* what getWeatherInfo returned
     respA   |-> NoResp,
     respB   |-> NoResp,
     respL   |-> NoResp]

Absent == NewRequest(0, "none", [top |-> "notjson", fld |-> "absent", cep |-> <<>>, trail |-> FALSE], <<>>, <<>>, "full")

\* a client that sends every request a second time
CallTwice(s, to, arg) ==
    [s EXCEPT !.calls = Append(Append(@, [to |-> to, arg |-> arg]), [to |-> to, arg |-> arg])]

\* an upstream HTTP call leaving the process
Call(s, to, arg) ==
    [s EXCEPT !.calls = Append(@, [to |-> to, arg |-> arg])]

CallsTo(s, to) ==
    Cardinality({i \in 1..Len(s.calls) : s.calls[i].to = to})

\* the trace id generator hands out nextTrace when a root span was started
NextTraceAfter(s, tid) ==
    IF \E i \in 1..Len(s.spans) : s.spans[i].trace = tid THEN tid + 1 ELSE tid

-----------------------------------------------------------------------------
(* service-a: cepHandler and callServiceB *)

\* a decoder that takes a number for the cep field as no code at all
DecodeCEPRequestLenient(body) ==
    CASE body.top = "notjson" -> [ok |-> FALSE, CEP |-> <<>>]
      [] body.top = "array"   -> [ok |-> FALSE, CEP |-> <<>>]
      [] body.top = "null"    -> [ok |-> TRUE, CEP |-> <<>>]
      [] OTHER ->
           IF body.fld = "string" THEN [ok |-> TRUE, CEP |-> body.cep]
           ELSE [ok |-> TRUE, CEP |-> <<>>]

\* json.NewDecoder(r.Body).Decode(&cepReq): the first JSON value of the body is
\* decoded; null and an absent or null field leave cepReq.CEP empty; what
\* follows the first value is not read
DecodeCEPRequest(body) ==
    CASE body.top = "notjson" -> [ok |-> FALSE, CEP |-> <<>>]
      [] body.top = "array"   -> [ok |-> FALSE, CEP |-> <<>>]
      [] body.top = "null"    -> [ok |-> TRUE, CEP |-> <<>>]
      [] OTHER ->
           CASE body.fld = "string" -> [ok |-> TRUE, CEP |-> body.cep]
             [] body.fld = "number" -> [ok |-> FALSE, CEP |-> <<>>]
             [] OTHER               -> [ok |-> TRUE, CEP |-> <<>>]

\* otelmux.Middleware("service-a") and the first lines of cepHandler
cepHandlerEnter(s, tid) ==
    LET s1 == StartSpan(s, "service-a", "server-a", TRUE, Extract(s.hdr), tid)
    IN  StartSpan(s1, "service-a", "cep_handler", FALSE, SpanCtx(s1, "server-a"), tid)

\* a return of cepHandler: the response is written, the deferred span.End()
\* runs, then the middleware ends its server span
cepHandlerReturn(s, resp) ==
    LET s1 == [s EXCEPT !.respA = resp,
                        !.events = Append(@, <<"write", "service-a">>),
                        !.pcA = "done"]
    IN  EndSpan(EndSpan(s1, "cep_handler"), "server-a")

\* the body does not decode
cepHandlerBadRequest(s) ==
    LET s1 == RecordError(s, "cep_handler")
        s2 == SetAttributes(s1, "cep_handler", {"error"})
    IN  cepHandlerReturn(s2, ErrorResponse(400, "invalid request body"))

\* only the empty code is rejected
cepHandlerRejectsEmptyOnly(cep) ==
    cep = <<>>

\* cepReq.CEP == "" || !isValidCEPFormat(cepReq.CEP)
cepHandlerRejects(cep) ==
    cep = <<>> \/ ~isValidCEPFormat(cep)

cepHandlerInvalid(s) ==
    LET s1 == SetAttributes(s, "cep_handler", {"cep", "validation"})
    IN  cepHandlerReturn(s1, ErrorResponse(422, "invalid zipcode"))

\* an error mapping whose last branch answers 502 with the text of the error
cepHandlerMapErrorBadGateway(err) ==
    IF Contains(err, ErrInvalidZipcode) THEN ErrorResponse(422, "invalid zipcode")
    ELSE IF Contains(err, ErrCanNotFind) THEN ErrorResponse(404, "can not find zipcode")
    ELSE ErrorResponse(502, "erro no servico B")

\* the error branch of cepHandler: strings.Contains on the error text
cepHandlerMapError(err) ==
    IF Contains(err, ErrInvalidZipcode) THEN ErrorResponse(422, "invalid zipcode")
    ELSE IF Contains(err, ErrCanNotFind) THEN ErrorResponse(404, "can not find zipcode")
    ELSE ErrorResponse(500, "internal server error")

\* cepHandler after callServiceB has returned
cepHandlerFinish(s) ==
    IF s.retB.kind = "err"
    THEN cepHandlerReturn(RecordError(s, "cep_handler"), cepHandlerMapError(s.retB.err))
    ELSE cepHandlerReturn(SetAttributes(s, "cep_handler", {"city", "temp_c"}),
                          [status |-> 200, body |-> EncodeTemperatureResponse(s.retB.val)])

\* callServiceB up to http.NewRequestWithContext
callServiceBEnter(s, tid) ==
    LET s1 == SetAttributes(s, "cep_handler", {"cep"})
        s2 == StartSpan(s1, "service-a", "call_service_b", FALSE, SpanCtx(s1, "cep_handler"), tid)
    IN  SetAttributes(s2, "call_service_b", {"service", "cep"})

\* a return of callServiceB: the deferred span.End() runs
callServiceBReturn(s, ret) ==
    EndSpan([s EXCEPT !.retB = ret], "call_service_b")

\* http.NewRequestWithContext fails
callServiceBNoRequest(s) ==
    callServiceBReturn(s, [NoRet EXCEPT !.kind = "err",
                                        !.err = <<"erro", "ao", "criar", "request:">> \o CauseParse])

\* httpClient.Do(req): the otelhttp transport starts a client span and injects
\* its context; the request leaves for service-b
callServiceBDo(s, cep, tid) ==
    LET s1 == StartSpan(s, "service-a", "client-a", TRUE, SpanCtx(s, "call_service_b"), tid)
        s2 == Call(s1, "service-b", cep)
    IN  [s2 EXCEPT !.wire = [sent |-> TRUE,
                             path |-> EscapePath(cep),
                             traceparent |-> Inject(SpanCtx(s1, "client-a"))],
                   !.pcA = "waitB",
                   !.pcB = "recv"]

\* httpClient.Do returns an error: connection failure or timeout
callServiceBDoFails(s, kind) ==
    LET s1 == EndSpan(RecordError([s EXCEPT !.recvB = [kind |-> "fail", resp |-> NoResp]],
                                  "client-a"), "client-a")
    IN  callServiceBReturn(s1, [NoRet EXCEPT !.kind = "err",
                                             !.err = <<"erro", "ao", "chamar", "servico", "B:">>
                                                     \o TransportCause(kind)])

\* a switch whose default case reports "can not find zipcode"
callServiceBSwitchDefaultNotFound(resp) ==
    CASE resp.status = 200 ->
           [NoRet EXCEPT !.kind = "ok", !.status = 200,
                         !.val = [City |-> resp.body.city, TempC |-> resp.body.temp_C,
                                  TempF |-> resp.body.temp_F, TempK |-> resp.body.temp_K]]
      [] resp.status = 422 ->
           [NoRet EXCEPT !.kind = "err", !.status = 422, !.err = <<"invalid", "zipcode">>]
      [] OTHER ->
           [NoRet EXCEPT !.kind = "err", !.status = resp.status,
                         !.err = <<"can", "not", "find", "zipcode">>]

\* the switch on resp.StatusCode
callServiceBSwitch(resp) ==
    CASE resp.status = 200 ->
           [NoRet EXCEPT !.kind = "ok", !.status = 200,
                         !.val = DecodeTemperatureResponse(resp.body)]
      [] resp.status = 422 ->
           [NoRet EXCEPT !.kind = "err", !.status = 422, !.err = <<"invalid", "zipcode">>]
      [] resp.status = 404 ->
           [NoRet EXCEPT !.kind = "err", !.status = 404, !.err = <<"can", "not", "find", "zipcode">>]
      [] OTHER ->
           [NoRet EXCEPT !.kind = "err", !.status = resp.status,
                         !.err = <<"erro", "no", "servico", "B:", "status", ToString(resp.status)>>]

\* the deferred calls run in the other order: span.End() before resp.Body.Close()
callServiceBGotResponseEndFirst(s, resp) ==
    LET s1 == SetAttributes([s EXCEPT !.recvB = [kind |-> "resp", resp |-> resp]],
                            "call_service_b", {"http.status_code"})
    IN  EndSpan(callServiceBReturn(s1, callServiceBSwitch(resp)), "client-a")

\* httpClient.Do returns a response: the status is noted, the switch runs, the
\* deferred resp.Body.Close() ends the client span, then span.End()
callServiceBGotResponse(s, resp) ==
    LET s1 == SetAttributes([s EXCEPT !.recvB = [kind |-> "resp", resp |-> resp]],
                            "call_service_b", {"http.status_code"})
        s2 == EndSpan(s1, "client-a")
    IN  callServiceBReturn(s2, callServiceBSwitch(resp))

-----------------------------------------------------------------------------
(* service-b: weatherHandler, getCEPInfo, getWeatherInfo *)

\* temperatures are fixed point: Celsius and Kelvin in tenths of a degree,
\* Fahrenheit in hundredths (c * 1.8 of a value in tenths is exact in hundredths)
celsiusToFahrenheit(c) ==
    c * 18 + 3200

\* the offset 273.15, rounded to tenths
celsiusToKelvinExactOffset(c) ==
    c + 2731

celsiusToKelvin(c) ==
    c + 2730

\* mux.Vars(r)["cep"]: the path segment as the server decoded it
PathVar(s) ==
    UnescapePath(s.wire.path)

\* otelmux.Middleware("service-b") and the first lines of weatherHandler
weatherHandlerEnter(s, tid) ==
    LET s1 == StartSpan(s, "service-b", "server-b", TRUE, Extract(s.wire.traceparent), tid)
        s2 == StartSpan(s1, "service-b", "weather_handler", FALSE, SpanCtx(s1, "server-b"), tid)
    IN  SetAttributes(s2, "weather_handler", {"cep"})

\* a return of weatherHandler: the response is written, the deferred
\* span.End() runs, then the middleware ends its server span
weatherHandlerReturn(s, resp) ==
    LET s1 == [s EXCEPT !.respB = resp,
                        !.events = Append(@, <<"write", "service-b">>),
                        !.pcB = "done"]
    IN  EndSpan(EndSpan(s1, "weather_handler"), "server-b")

weatherHandlerInvalid(s) ==
    LET s1 == SetAttributes(s, "weather_handler", {"validation"})
    IN  weatherHandlerReturn(s1, ErrorResponse(422, "invalid zipcode"))

\* getCEPInfo up to http.NewRequestWithContext
getCEPInfoEnter(s, tid) ==
    LET s1 == StartSpan(s, "service-b", "get_cep_info", FALSE, SpanCtx(s, "weather_handler"), tid)
    IN  SetAttributes(s1, "get_cep_info", {"cep", "api"})

\* a return of getCEPInfo that never ends the span
getCEPInfoReturnNoEnd(s, ret) ==
    [s EXCEPT !.cepInfo = ret]

\* a return of getCEPInfo: the deferred span.End() runs
getCEPInfoReturn(s, ret) ==
    EndSpan([s EXCEPT !.cepInfo = ret], "get_cep_info")

\* http.NewRequestWithContext fails
getCEPInfoNoRequest(s) ==
    getCEPInfoReturn(RecordError(s, "get_cep_info"),
                     [NoLookup EXCEPT !.kind = "err", !.out = "noreq",
                                      !.err = <<"erro", "ao", "criar", "request:">> \o CauseParse])

\* httpClient.Do(req) towards the postal registry
getCEPInfoDo(s, cep, tid) ==
    LET s1 == StartSpan(s, "service-b", "client-cep", TRUE, SpanCtx(s, "get_cep_info"), tid)
    IN  [Call(s1, "viacep", cep) EXCEPT !.pcB = "cep"]

\* the empty locality is taken for a locality
localidadeMissingIgnored(out) ==
    FALSE

\* cepData.Localidade == ""
localidadeMissing(out) ==
    out.localidade = <<>>

\* the rest of getCEPInfo, by what the registry did
getCEPInfoResult(s0, out) ==
    LET s == [s0 EXCEPT !.cepResp = out]
    IN
    CASE out.kind = "transport" ->
           getCEPInfoReturn(
               RecordError(EndSpan(RecordError(s, "client-cep"), "client-cep"), "get_cep_info"),
               [NoLookup EXCEPT !.kind = "err", !.out = "transport",
                                !.err = <<"erro", "ao", "consultar", "CEP:">> \o CauseTimeout])
      [] out.kind = "status" ->
           getCEPInfoReturn(
               EndSpan(RecordError(SetAttributes(s, "get_cep_info", {"http.status_code"}),
                                   "get_cep_info"), "client-cep"),
               [NoLookup EXCEPT !.kind = "err", !.out = "status",
                                !.err = <<"erro", "na", "API", "ViaCEP:", "status", ToString(out.status)>>])
      [] out.kind = "garbled" ->
           getCEPInfoReturn(
               EndSpan(RecordError(SetAttributes(s, "get_cep_info", {"http.status_code"}),
                                   "get_cep_info"), "client-cep"),
               [NoLookup EXCEPT !.kind = "err", !.out = "garbled",
                                !.err = <<"erro", "ao", "decodificar", "resposta", "do", "CEP:">>
                                        \o CauseJSON])
      [] OTHER ->
           IF out.erro
           THEN getCEPInfoReturn(
                    EndSpan(SetAttributes(s, "get_cep_info", {"http.status_code", "cep.found"}),
                            "client-cep"),
                    [NoLookup EXCEPT !.kind = "err", !.out = "erro",
                                     !.err = <<"CEP", "nao", "encontrado">>])
           ELSE IF localidadeMissing(out)
           THEN getCEPInfoReturn(
                    EndSpan(SetAttributes(s, "get_cep_info", {"http.status_code", "cep.found"}),
                            "client-cep"),
                    [NoLookup EXCEPT !.kind = "err", !.out = "empty",
                                     !.err = <<"CEP", "nao", "encontrado">>])
           ELSE getCEPInfoReturn(
                    EndSpan(SetAttributes(s, "get_cep_info",
                                          {"http.status_code", "cep.found", "localidade", "uf"}),
                            "client-cep"),
                    [NoLookup EXCEPT !.kind = "ok", !.out = "ok",
                                     !.localidade = out.localidade])

\* a return of getWeatherInfo: the deferred span.End() runs
getWeatherInfoReturn(s, ret) ==
    EndSpan([s EXCEPT !.weather = ret], "get_weather_info")

\* getWeatherInfo up to and including httpClient.Do(req)
getWeatherInfoDo(s, localidade, tid) ==
    LET s1 == StartSpan(s, "service-b", "get_weather_info", FALSE, SpanCtx(s, "weather_handler"), tid)
        s2 == SetAttributes(s1, "get_weather_info", {"localidade", "api"})
    IN  IF ~URLParses(QueryEscape(localidade))
        THEN getWeatherInfoReturn(RecordError(s2, "get_weather_info"),
                 [NoLookup EXCEPT !.kind = "err", !.out = "noreq",
                                  !.err = <<"erro", "ao", "criar", "request:">> \o CauseParse])
        ELSE LET s3 == StartSpan(s2, "service-b", "client-weather", TRUE,
                                 SpanCtx(s2, "get_weather_info"), tid)
             IN  [Call(s3, "weatherapi", QueryEscape(localidade)) EXCEPT !.pcB = "weather"]

\* the rest of getWeatherInfo, by what the weather provider did
getWeatherInfoResult(s, out) ==
    CASE out.kind = "transport" ->
           getWeatherInfoReturn(
               RecordError(EndSpan(RecordError(s, "client-weather"), "client-weather"),
                           "get_weather_info"),
               [NoLookup EXCEPT !.kind = "err", !.out = "transport",
                                !.err = <<"erro", "ao", "consultar", "clima:">> \o CauseTimeout])
      [] out.kind = "status" ->
           getWeatherInfoReturn(
               EndSpan(RecordError(SetAttributes(s, "get_weather_info", {"http.status_code"}),
                                   "get_weather_info"), "client-weather"),
               [NoLookup EXCEPT !.kind = "err", !.out = "status",
                                !.err = <<"erro", "na", "API", "Weather:", "status", ToString(out.status)>>])
      [] out.kind = "garbled" ->
           getWeatherInfoReturn(
               EndSpan(RecordError(SetAttributes(s, "get_weather_info", {"http.status_code"}),
                                   "get_weather_info"), "client-weather"),
               [NoLookup EXCEPT !.kind = "err", !.out = "garbled",
                                !.err = <<"erro", "ao", "decodificar", "resposta", "do", "clima:">>
                                        \o CauseJSON])
      [] OTHER ->
           getWeatherInfoReturn(
               EndSpan(SetAttributes(s, "get_weather_info",
                                     {"http.status_code", "weather.location", "weather.temp_c",
                                      "weather.condition"}),
                       "client-weather"),
               [NoLookup EXCEPT !.kind = "ok", !.out = "ok",
                                !.name = out.name, !.temp = out.temp])

\* the error of getCEPInfo is dropped
cepLookupFailedIgnored(ret) ==
    FALSE

\* err != nil after getCEPInfo
cepLookupFailed(ret) ==
    ret.kind = "err"

\* the error of getWeatherInfo is dropped
weatherLookupFailedIgnored(ret) ==
    FALSE

\* err != nil after getWeatherInfo
weatherLookupFailed(ret) ==
    ret.kind = "err"

\* a postal failure answered as an internal error
weatherHandlerNotFoundAs500(s) ==
    weatherHandlerReturn(RecordError(s, "weather_handler"),
                         ErrorResponse(500, "internal server error"))

\* weatherHandler after getCEPInfo has failed
weatherHandlerNotFound(s) ==
    weatherHandlerReturn(RecordError(s, "weather_handler"),
                         ErrorResponse(404, "can not find zipcode"))

\* weatherHandler after getWeatherInfo has returned
weatherHandlerFinish(s) ==
    IF weatherLookupFailed(s.weather)
    THEN weatherHandlerReturn(RecordError(s, "weather_handler"),
                              ErrorResponse(500, "weather service unavailable"))
    ELSE LET tempC == s.weather.temp
             response == [City  |-> s.weather.name,
                          TempC |-> tempC,
                          TempF |-> celsiusToFahrenheit(tempC),
                          TempK |-> celsiusToKelvin(tempC)]
         IN  weatherHandlerReturn(
                 SetAttributes(s, "weather_handler",
                               {"response.city", "response.temp_c", "response.temp_f",
                                "response.temp_k"}),
                 [status |-> 200, body |-> EncodeTemperatureResponse(response)])

\* weatherHandler after getCEPInfo has returned: 404, or on to getWeatherInfo
weatherHandlerAfterCEP(s, tid) ==
    IF cepLookupFailed(s.cepInfo)
    THEN weatherHandlerNotFound(s)
    ELSE LET s1 == getWeatherInfoDo(s, s.cepInfo.localidade, tid)
         IN  IF s1.pcB = "weather" THEN s1 ELSE weatherHandlerFinish(s1)

-----------------------------------------------------------------------------
(* legacy service: the same orchestration without tracing *)

legacyCelsiusToFahrenheit(c) ==
    c * 18 + 3200

legacyCelsiusToKelvin(c) ==
    c + 2730

\* json.NewEncoder(w).Encode(response): the legacy report has no city
legacyEncodeTemperatureResponse(t) ==
    [temp_C |-> t.TempC, temp_F |-> t.TempF, temp_K |-> t.TempK]

legacyReturn(s, resp) ==
    [s EXCEPT !.respL = resp,
              !.events = Append(@, <<"write", "legacy">>),
              !.pcL = "done"]

legacyInvalid(s) ==
    legacyReturn(s, ErrorResponse(422, "invalid zipcode"))

\* httpClient.Get(url) fails before any request leaves: the URL does not parse
legacyGetCEPInfoNoRequest(s) ==
    [s EXCEPT !.cepInfo = [NoLookup EXCEPT !.kind = "err", !.out = "noreq",
                                           !.err = <<"erro", "ao", "consultar", "CEP:">> \o CauseParse]]

\* httpClient.Get(url) towards the postal registry
legacyGetCEPInfoDo(s, cep) ==
    [Call(s, "viacep", cep) EXCEPT !.pcL = "cep"]

\* the rest of the legacy getCEPInfo, by what the registry did
legacyGetCEPInfoResult(s, out) ==
    [s EXCEPT !.cepResp = out, !.cepInfo =
        CASE out.kind = "transport" ->
               [NoLookup EXCEPT !.kind = "err", !.out = "transport",
                                !.err = <<"erro", "ao", "consultar", "CEP:">> \o CauseTimeout]
          [] out.kind = "status" ->
               [NoLookup EXCEPT !.kind = "err", !.out = "status",
                                !.err = <<"erro", "na", "API", "ViaCEP:", "status", ToString(out.status)>>]
          [] out.kind = "garbled" ->
               [NoLookup EXCEPT !.kind = "err", !.out = "garbled",
                                !.err = <<"erro", "ao", "decodificar", "resposta", "do", "CEP:">>
                                        \o CauseJSON]
          [] OTHER ->
               IF out.erro
               THEN [NoLookup EXCEPT !.kind = "err", !.out = "erro",
                                     !.err = <<"CEP", "nao", "encontrado">>]
               ELSE IF out.localidade = <<>>
               THEN [NoLookup EXCEPT !.kind = "err", !.out = "empty",
                                     !.err = <<"CEP", "nao", "encontrado">>]
               ELSE [NoLookup EXCEPT !.kind = "ok", !.out = "ok",
                                     !.localidade = out.localidade]]

\* the legacy getWeatherInfo up to and including httpClient.Get
legacyGetWeatherInfoDo(s, localidade) ==
    IF ~URLParses(QueryEscape(localidade))
    THEN [s EXCEPT !.weather = [NoLookup EXCEPT !.kind = "err", !.out = "noreq",
                                   !.err = <<"erro", "ao", "consultar", "clima:">> \o CauseParse]]
    ELSE [Call(s, "weatherapi", QueryEscape(localidade)) EXCEPT !.pcL = "weather"]

\* the rest of the legacy getWeatherInfo, by what the weather provider did
legacyGetWeatherInfoResult(s, out) ==
    [s EXCEPT !.weather =
        CASE out.kind = "transport" ->
               [NoLookup EXCEPT !.kind = "err", !.out = "transport",
                                !.err = <<"erro", "ao", "consultar", "clima:">> \o CauseTimeout]
          [] out.kind = "status" ->
               [NoLookup EXCEPT !.kind = "err", !.out = "status",
                                !.err = <<"erro", "na", "API", "Weather:", "status", ToString(out.status)>>]
          [] out.kind = "garbled" ->
               [NoLookup EXCEPT !.kind = "err", !.out = "garbled",
                                !.err = <<"erro", "ao", "decodificar", "resposta", "do", "clima:">>
                                        \o CauseJSON]
          [] OTHER ->
               [NoLookup EXCEPT !.kind = "ok", !.out = "ok",
                                !.name = out.name, !.temp = out.temp]]

\* err != nil after the legacy getCEPInfo
legacyCepLookupFailed(ret) ==
    ret.kind = "err"

\* err != nil after the legacy getWeatherInfo
legacyWeatherLookupFailed(ret) ==
    ret.kind = "err"

\* the legacy weatherHandler after getWeatherInfo has returned
legacyFinish(s) ==
    IF legacyWeatherLookupFailed(s.weather)
    THEN legacyReturn(s, ErrorResponse(500, "weather service unavailable"))
    ELSE LET tempC == s.weather.temp
             response == [TempC |-> tempC,
                          TempF |-> legacyCelsiusToFahrenheit(tempC),
                          TempK |-> legacyCelsiusToKelvin(tempC)]
         IN  legacyReturn(s, [status |-> 200, body |-> legacyEncodeTemperatureResponse(response)])

\* the legacy weatherHandler after getCEPInfo has returned
legacyAfterCEP(s) ==
    IF legacyCepLookupFailed(s.cepInfo)
    THEN legacyReturn(s, ErrorResponse(404, "can not find zipcode"))
    ELSE LET s1 == legacyGetWeatherInfoDo(s, s.cepInfo.localidade)
         IN  IF s1.pcL = "weather" THEN s1 ELSE legacyFinish(s1)

-----------------------------------------------------------------------------
(* Inputs and provider outcomes *)

Requests == 1..NumReq

Digits(n) == [i \in 1..n |-> "7"]

CepEmpty == <<>>
CepShort == Digits(3)
CepPlain == Digits(CEPDigits)
CepDashed == Digits(5) \o <<"-">> \o Digits(3)
CepSpaced == <<" ">> \o Digits(CEPDigits)
CepTabbed == <<"\t">> \o Digits(CEPDigits)
CepLong == Digits(CEPDigits + 1)

JSONBody(top, fld, cep, trail) ==
    [top |-> top, fld |-> fld, cep |-> cep, trail |-> trail]

\* POST bodies: text that is not JSON, a JSON array, JSON null, and objects
\* whose cep field is absent, null, a number or a string; one object is
\* followed by further text
Bodies ==
    {JSONBody("notjson", "absent", <<>>, FALSE),
     JSONBody("array", "absent", <<>>, FALSE),
     JSONBody("null", "absent", <<>>, FALSE),
     JSONBody("object", "absent", <<>>, FALSE),
     JSONBody("object", "null", <<>>, FALSE),
     JSONBody("object", "number", <<>>, FALSE),
     JSONBody("object", "string", CepPlain, TRUE)}
    \cup {JSONBody("object", "string", c, FALSE) :
            c \in {CepEmpty, CepShort, CepPlain, CepDashed, CepSpaced, CepTabbed, CepLong}}

\* path segments a client can hand to service-b or the legacy service
\* (the route /{cep} matches a non-empty segment)
Paths == {CepShort, CepPlain, CepDashed, CepSpaced, CepTabbed, CepLong}

\* the inbound request carries no traceparent header, or that of the client
Headers == {<<>>, Inject([trace |-> -1, span |-> <<0, 0>>])}

Localidades == {<<"S", " ", "P">>, <<"R", "J">>}

CEPOutcome(kind, status, erro, localidade) ==
    [kind |-> kind, status |-> status, erro |-> erro, localidade |-> localidade]

\* what the postal registry can do with one request
CEPOutcomes ==
    {CEPOutcome("transport", 0, FALSE, <<>>),
     CEPOutcome("status", 400, FALSE, <<>>),
     CEPOutcome("status", 500, FALSE, <<>>),
     CEPOutcome("garbled", 200, FALSE, <<>>)}
    \cup {CEPOutcome("json", 200, e, l) : e \in BOOLEAN, l \in Localidades \cup {<<>>}}

WeatherOutcome(kind, status, name, temp) ==
    [kind |-> kind, status |-> status, name |-> name, temp |-> temp]

\* what the weather provider can do with one request (temperatures in tenths)
WeatherOutcomes ==
    {WeatherOutcome("transport", 0, <<>>, 0),
     WeatherOutcome("status", 400, <<>>, 0),
     WeatherOutcome("status", 503, <<>>, 0),
     WeatherOutcome("garbled", 200, <<>>, 0)}
    \cup {WeatherOutcome("json", 200, n, c) : n \in {<<"S", "P">>, <<>>}, c \in {0, 255, 1000, -40}}

\* one failure and one success per provider, for the concurrent specification
BriefCEPOutcomes ==
    {CEPOutcome("transport", 0, FALSE, <<>>),
     CEPOutcome("json", 200, FALSE, <<"S", " ", "P">>)}

BriefWeatherOutcomes ==
    {WeatherOutcome("status", 503, <<>>, 0),
     WeatherOutcome("json", 200, <<"S", "P">>, 255)}

\* a call in flight under a canceled context ends as a transport failure
CEPOutcomesOf(s) ==
    IF s.entry # "L" /\ s.ctxB = "canceled" THEN {CEPOutcome("transport", 0, FALSE, <<>>)}
    ELSE IF s.env = "full" THEN CEPOutcomes
    ELSE BriefCEPOutcomes

WeatherOutcomesOf(s) ==
    IF s.entry # "L" /\ s.ctxB = "canceled" THEN {WeatherOutcome("transport", 0, <<>>, 0)}
    ELSE IF s.env = "full" THEN WeatherOutcomes
    ELSE BriefWeatherOutcomes

-----------------------------------------------------------------------------
(* Actions *)

Step(r, s) ==
    /\ req' = [req EXCEPT ![r] = s]
    /\ nextTrace' = NextTraceAfter(s, nextTrace)
    /\ UNCHANGED <<vin, vout>>

\* cepHandler: the body does not decode -> 400
CepHandlerBadBody(r) ==
    /\ req[r].pcA = "recv"
    /\ LET s == cepHandlerEnter(req[r], nextTrace)
           dec == DecodeCEPRequest(s.body)
       IN  /\ ~dec.ok
           /\ Step(r, cepHandlerBadRequest(s))

\* cepHandler: the code is empty or fails the format rule -> 422
CepHandlerInvalidZipcode(r) ==
    /\ req[r].pcA = "recv"
    /\ LET s == cepHandlerEnter(req[r], nextTrace)
           dec == DecodeCEPRequest(s.body)
       IN  /\ dec.ok
           /\ cepHandlerRejects(dec.CEP)
           /\ Step(r, cepHandlerInvalid([s EXCEPT !.cepReq = dec.CEP]))

\* cepHandler -> callServiceB: the request cannot be built -> 500
CepHandlerRequestFails(r) ==
    /\ req[r].pcA = "recv"
    /\ LET s == cepHandlerEnter(req[r], nextTrace)
           dec == DecodeCEPRequest(s.body)
       IN  /\ dec.ok
           /\ ~cepHandlerRejects(dec.CEP)
           /\ ~URLParses(dec.CEP)
           /\ Step(r, cepHandlerFinish(callServiceBNoRequest(
                        callServiceBEnter([s EXCEPT !.cepReq = dec.CEP], nextTrace))))

\* cepHandler -> callServiceB: the request leaves for service-b
CepHandlerCallsServiceB(r) ==
    /\ req[r].pcA = "recv"
    /\ LET s == cepHandlerEnter(req[r], nextTrace)
           dec == DecodeCEPRequest(s.body)
       IN  /\ dec.ok
           /\ ~cepHandlerRejects(dec.CEP)
           /\ URLParses(dec.CEP)
           /\ Step(r, callServiceBDo(
                        callServiceBEnter([s EXCEPT !.cepReq = dec.CEP], nextTrace),
                        dec.CEP, nextTrace))

\* the transport of service-a gives the request up and closes its connection:
\* a request service-b has not yet taken never reaches weatherHandler, for a
\* request it is serving the server cancels r.Context()
connectionClosed(s) ==
    IF s.pcB = "recv" THEN [s EXCEPT !.pcB = "none"]
    ELSE IF s.pcB \in {"cep", "weather"} THEN [s EXCEPT !.ctxB = "canceled"]
    ELSE s

\* httpClient.Do fails: the context of the request was canceled, the
\* connection is refused before service-b has seen the request, or the client
\* times out while service-b works or after it answered
CallServiceBFails(r) ==
    /\ req[r].pcA = "waitB"
    /\ LET s == req[r]
           kind == IF s.ctxA = "canceled" THEN "canceled"
                   ELSE IF s.pcB = "recv" THEN "refused"
                   ELSE "timeout"
       IN  Step(r, cepHandlerFinish(callServiceBDoFails(connectionClosed(s), kind)))

\* httpClient.Do returns the response of service-b
CallServiceBResponds(r) ==
    /\ req[r].pcA = "waitB"
    /\ req[r].ctxA = "live"
    /\ req[r].pcB = "done"
    /\ Step(r, cepHandlerFinish(callServiceBGotResponse(req[r], req[r].respB)))

\* weatherHandler: the code fails the format rule -> 422
WeatherHandlerInvalidZipcode(r) ==
    /\ req[r].pcB = "recv"
    /\ LET s == weatherHandlerEnter(req[r], nextTrace)
       IN  /\ ~isValidCEP(PathVar(s))
           /\ Step(r, weatherHandlerInvalid(s))

\* weatherHandler -> getCEPInfo: the request cannot be built -> 404
WeatherHandlerCEPRequestFails(r) ==
    /\ req[r].pcB = "recv"
    /\ LET s == weatherHandlerEnter(req[r], nextTrace)
       IN  /\ isValidCEP(PathVar(s))
           /\ ~URLParses(ReplaceAllDash(PathVar(s)))
           /\ Step(r, weatherHandlerAfterCEP(
                        getCEPInfoNoRequest(getCEPInfoEnter(s, nextTrace)), nextTrace))

\* weatherHandler -> getCEPInfo: the request leaves for the postal registry
WeatherHandlerLooksUpCEP(r) ==
    /\ req[r].pcB = "recv"
    /\ LET s == weatherHandlerEnter(req[r], nextTrace)
       IN  /\ isValidCEP(PathVar(s))
           /\ URLParses(ReplaceAllDash(PathVar(s)))
           /\ Step(r, getCEPInfoDo(getCEPInfoEnter(s, nextTrace),
                                   ReplaceAllDash(PathVar(s)), nextTrace))

\* the postal registry call ends; weatherHandler answers 404 or calls the
\* weather provider
GetCEPInfoCompletes(r) ==
    /\ req[r].pcB = "cep"
    /\ \E out \in CEPOutcomesOf(req[r]) :
          Step(r, weatherHandlerAfterCEP(getCEPInfoResult(req[r], out), nextTrace))

\* the weather provider call ends; weatherHandler answers 500 or 200
GetWeatherInfoCompletes(r) ==
    /\ req[r].pcB = "weather"
    /\ \E out \in WeatherOutcomesOf(req[r]) :
          Step(r, weatherHandlerFinish(getWeatherInfoResult(req[r], out)))

\* legacy weatherHandler: the code fails the format rule -> 422
LegacyInvalidZipcode(r) ==
    /\ req[r].pcL = "recv"
    /\ ~legacyIsValidCEP(PathVar(req[r]))
    /\ Step(r, legacyInvalid(req[r]))

\* legacy weatherHandler -> getCEPInfo: the URL does not parse -> 404
LegacyCEPRequestFails(r) ==
    /\ req[r].pcL = "recv"
    /\ legacyIsValidCEP(PathVar(req[r]))
    /\ ~URLParses(ReplaceAllDash(PathVar(req[r])))
    /\ Step(r, legacyAfterCEP(legacyGetCEPInfoNoRequest(req[r])))

\* legacy weatherHandler -> getCEPInfo: the request leaves for the postal registry
LegacyLooksUpCEP(r) ==
    /\ req[r].pcL = "recv"
    /\ legacyIsValidCEP(PathVar(req[r]))
    /\ URLParses(ReplaceAllDash(PathVar(req[r])))
    /\ Step(r, legacyGetCEPInfoDo(req[r], ReplaceAllDash(PathVar(req[r]))))

LegacyCEPCompletes(r) ==
    /\ req[r].pcL = "cep"
    /\ \E out \in CEPOutcomesOf(req[r]) :
          Step(r, legacyAfterCEP(legacyGetCEPInfoResult(req[r], out)))

LegacyWeatherCompletes(r) ==
    /\ req[r].pcL = "weather"
    /\ \E out \in WeatherOutcomesOf(req[r]) :
          Step(r, legacyFinish(legacyGetWeatherInfoResult(req[r], out)))

\* the client of the request goes away while an upstream call is in flight:
\* the server cancels r.Context() of the handler the client called
ClientDisconnects(r) ==
    /\ \/ /\ req[r].entry = "A"
          /\ req[r].pcA = "waitB"
          /\ req[r].ctxA = "live"
          /\ Step(r, [req[r] EXCEPT !.ctxA = "canceled"])
       \/ /\ req[r].entry = "B"
          /\ req[r].pcB \in {"cep", "weather"}
          /\ req[r].ctxB = "live"
          /\ Step(r, [req[r] EXCEPT !.ctxB = "canceled"])

-----------------------------------------------------------------------------
(* Specifications *)

ServiceA(r) ==
    \/ CepHandlerBadBody(r)
    \/ CepHandlerInvalidZipcode(r)
    \/ CepHandlerRequestFails(r)
    \/ CepHandlerCallsServiceB(r)
    \/ CallServiceBFails(r)
    \/ CallServiceBResponds(r)

ServiceB(r) ==
    \/ WeatherHandlerInvalidZipcode(r)
    \/ WeatherHandlerCEPRequestFails(r)
    \/ WeatherHandlerLooksUpCEP(r)
    \/ GetCEPInfoCompletes(r)
    \/ GetWeatherInfoCompletes(r)

Legacy(r) ==
    \/ LegacyInvalidZipcode(r)
    \/ LegacyCEPRequestFails(r)
    \/ LegacyLooksUpCEP(r)
    \/ LegacyCEPCompletes(r)
    \/ LegacyWeatherCompletes(r)

\* one request, every input: through service-a, straight to service-b, or to
\* the legacy service
Init ==
    /\ \E b \in Bodies, p \in Paths, h \in Headers :
          \/ req = [r \in Requests |-> IF r = 1 THEN NewRequest(1, "A", b, <<>>, h, "full") ELSE Absent]
          \/ req = [r \in Requests |-> IF r = 1
                                       THEN NewRequest(1, "B", JSONBody("notjson", "absent", <<>>, FALSE),
                                                       EscapePath(p), h, "full")
                                       ELSE Absent]
          \/ req = [r \in Requests |-> IF r = 1
                                       THEN NewRequest(1, "L", JSONBody("notjson", "absent", <<>>, FALSE),
                                                       EscapePath(p), <<>>, "full")
                                       ELSE Absent]
    /\ nextTrace = 1
    /\ vin = <<>>
    /\ vout = <<>>

Next ==
    \E r \in Requests : ServiceA(r) \/ ServiceB(r) \/ Legacy(r) \/ ClientDisconnects(r)

Spec == Init /\ [][Next]_vars

\* bodies of the concurrent specification
ConcBodies ==
    {JSONBody("notjson", "absent", <<>>, FALSE)}
    \cup {JSONBody("object", "string", c, FALSE) : c \in {CepShort, CepPlain, CepTabbed}}

\* path segments of the concurrent specification
ConcPaths == {CepShort, CepTabbed}

\* NumReq requests in flight at once: through service-a, or straight to service-b
ConcRequest(r) ==
    {NewRequest(r, "A", b, <<>>, <<>>, "brief") : b \in ConcBodies}
    \cup {NewRequest(r, "B", JSONBody("notjson", "absent", <<>>, FALSE), EscapePath(p), <<>>, "brief") :
            p \in ConcPaths}

InitConc ==
    /\ \E f \in [Requests -> UNION {ConcRequest(r) : r \in Requests}] :
          /\ \A r \in Requests : f[r].rid = r
          /\ req = f
    /\ nextTrace = 1
    /\ vin = <<>>
    /\ vout = <<>>

NextConc ==
    \E r \in Requests : ServiceA(r) \/ ServiceB(r)

SpecConc == InitConc /\ [][NextConc]_vars

-----------------------------------------------------------------------------
(* Properties *)

\* the response of the orchestration handler that served request r
OrchResp(s) ==
    IF s.entry = "L" THEN s.respL ELSE s.respB

OrchDone(s) ==
    IF s.entry = "L" THEN s.pcL = "done" ELSE s.pcB = "done"

\* C1: the weather provider is called only after the postal lookup of the same
\* request has returned successfully; after a format rejection or a failed
\* postal lookup it is never called.
C1_WeatherOnlyAfterPostalSuccess ==
    \A r \in Requests :
        LET s == req[r]
        IN  /\ \A j \in 1..Len(s.calls) :
                  s.calls[j].to = "weatherapi" =>
                      /\ s.cepInfo.kind = "ok"
                      /\ s.cepInfo.out = "ok"
                      /\ \E i \in 1..(j - 1) : s.calls[i].to = "viacep"
            /\ (s.cepInfo.out \notin {"none", "ok"} \/ OrchResp(s).status \in {422, 404}) =>
                  CallsTo(s, "weatherapi") = 0

C1_Witness ==
    \E r \in Requests :
        /\ req[r].cepInfo.out = "ok"
        /\ CallsTo(req[r], "weatherapi") = 1
        /\ req[r].entry \in {"B", "L"}

\* the spans the services start themselves
NamedSpans == {"cep_handler", "call_service_b", "weather_handler", "get_cep_info", "get_weather_info"}

\* the operation that started the span has returned
OperationReturned(s, name) ==
    CASE name = "cep_handler"      -> s.pcA = "done"
      [] name = "call_service_b"   -> s.retB.kind # "none"
      [] name = "weather_handler"  -> s.pcB = "done"
      [] name = "get_cep_info"     -> s.cepInfo.kind # "none"
      [] name = "get_weather_info" -> s.weather.kind # "none"

\* the handler that encloses the span has returned
HandlerReturned(s, svc) ==
    IF svc = "service-a" THEN s.pcA = "done" ELSE s.pcB = "done"

\* C2: every span the services start is ended exactly once when its operation
\* returns, on every exit path, never more than once, and none is open once
\* the enclosing handler has returned.
C2_SpansEndedExactlyOnce ==
    \A r \in Requests :
        \A i \in 1..Len(req[r].spans) :
            LET sp == req[r].spans[i]
            IN  sp.name \in NamedSpans =>
                    /\ sp.ends <= 1
                    /\ OperationReturned(req[r], sp.name) <=> sp.ends = 1
                    /\ HandlerReturned(req[r], sp.svc) => sp.ends = 1

\* a request that went through every operation: five spans, all ended
C2_Witness ==
    \E r \in Requests :
        /\ req[r].pcA = "done"
        /\ req[r].pcB = "done"
        /\ req[r].respA.status = 200
        /\ \A n \in NamedSpans :
              /\ HasSpan(req[r], n)
              /\ req[r].spans[SpanIdx(req[r], n)].ends = 1

SpansOf(s, svc) ==
    {i \in 1..Len(s.spans) : s.spans[i].svc = svc}

\* C3: under any interleaving of the requests in flight, every span service-b
\* creates for a forwarded request carries the trace id of that request's
\* service-a spans; service-b's first span is a child of the span that sent
\* the request, never a new root; span ids differ; and no other request
\* shares the trace.
C3_OneTracePerRequest ==
    \A r \in Requests :
        LET s == req[r]
        IN  /\ \A i \in SpansOf(s, "service-b"), j \in SpansOf(s, "service-a") :
                  s.spans[i].trace = s.spans[j].trace
            /\ (s.entry = "A" /\ HasSpan(s, "server-b")) =>
                  /\ HasSpan(s, "client-a")
                  /\ s.spans[SpanIdx(s, "server-b")].parent = s.spans[SpanIdx(s, "client-a")].id
            /\ \A i, j \in 1..Len(s.spans) : i # j => s.spans[i].id # s.spans[j].id
            /\ \A q \in Requests \ {r} :
                  \A i \in 1..Len(s.spans), j \in 1..Len(req[q].spans) :
                      s.spans[i].trace # req[q].spans[j].trace

\* two forwarded requests are inside service-b's weather lookup at once
C3_Witness ==
    \E r, q \in Requests :
        /\ r # q
        /\ req[r].pcB = "weather" /\ HasSpan(req[r], "get_weather_info")
        /\ req[q].pcB = "weather" /\ HasSpan(req[q], "get_weather_info")
        /\ req[r].pcA = "waitB"
        /\ req[q].pcA = "waitB"

\* service-a has forwarded the code of request r and has answered its client
Forwarded(s) ==
    /\ s.entry = "A"
    /\ s.pcA = "done"
    /\ CallsTo(s, "service-b") > 0

\* C4: after forwarding a format-valid code, service-a answers 422 "invalid
\* zipcode" exactly when the response it got from service-b was a 422, 404
\* "can not find zipcode" exactly when it was a 404, and 500 "internal server
\* error" for every other outcome that is not a 200 (another status, a
\* transport failure, a timeout); the error text of service-b is never relayed.
C4_StatusMapping ==
    \A r \in Requests :
        LET s == req[r]
            got == s.recvB.resp.status
        IN  Forwarded(s) =>
                /\ s.recvB.kind \in {"resp", "fail"}
                /\ s.recvB.kind = "resp" => s.recvB.resp = s.respB
                /\ (s.respA = ErrorResponse(422, "invalid zipcode")) <=> (got = 422)
                /\ s.respA.status = 422 <=> got = 422
                /\ (s.respA = ErrorResponse(404, "can not find zipcode")) <=> (got = 404)
                /\ s.respA.status = 404 <=> got = 404
                /\ got \notin {200, 422, 404} =>
                      s.respA = ErrorResponse(500, "internal server error")
                /\ s.respA.status # 200 =>
                      s.respA.body.message \in
                          {"invalid zipcode", "can not find zipcode", "internal server error"}

\* service-b answered 500 "weather service unavailable", service-a answered
\* 500 "internal server error"
C4_Witness ==
    \E r \in Requests :
        /\ Forwarded(req[r])
        /\ req[r].recvB.resp = ErrorResponse(500, "weather service unavailable")
        /\ req[r].respA = ErrorResponse(500, "internal server error")

PostalFailures == {"noreq", "transport", "status", "garbled", "erro", "empty"}
WeatherFailures == {"noreq", "transport", "status", "garbled"}

\* C6: in the orchestration handlers (service-b and legacy), every failure of
\* the postal lookup for a format-valid code - request construction, transport
\* or timeout, non-200 status, undecodable payload, not-found flag, empty
\* locality - is answered 404 "can not find zipcode", never 5xx or 200.
C6_PostalFailureIs404 ==
    \A r \in Requests :
        LET s == req[r]
        IN  s.cepInfo.out \in PostalFailures =>
                /\ OrchDone(s)
                /\ OrchResp(s) = ErrorResponse(404, "can not find zipcode")

\* the registry answered 200 with an empty locality and no flag: 404
C6_Witness ==
    \E r \in Requests :
        /\ req[r].entry = "B"
        /\ req[r].cepInfo.out = "empty"
        /\ req[r].respB = ErrorResponse(404, "can not find zipcode")

\* C7: in the orchestration handlers, once the postal lookup has succeeded,
\* every failure of the weather lookup is answered 500 "weather service
\* unavailable", and a successful weather lookup is answered 200 with the
\* temperature report.
C7_WeatherOutcome ==
    \A r \in Requests :
        LET s == req[r]
        IN  /\ s.weather.out \in WeatherFailures =>
                  /\ s.cepInfo.out = "ok"
                  /\ OrchDone(s)
                  /\ OrchResp(s) = ErrorResponse(500, "weather service unavailable")
            /\ s.weather.out = "ok" =>
                  /\ s.cepInfo.out = "ok"
                  /\ OrchDone(s)
                  /\ OrchResp(s).status = 200
                  /\ OrchResp(s).body.temp_C = s.weather.temp
                  /\ {"temp_C", "temp_F", "temp_K"} \subseteq DOMAIN OrchResp(s).body
                  /\ s.entry # "L" => OrchResp(s).body.city = s.weather.name

\* the weather provider answered 503 after a successful postal lookup: 500
C7_Witness ==
    \E r \in Requests :
        /\ req[r].entry = "B"
        /\ req[r].cepInfo.out = "ok"
        /\ req[r].weather.out = "status"
        /\ req[r].respB = ErrorResponse(500, "weather service unavailable")

\* the code of request r fails the format rule
FailsFormat(s) ==
    IF s.entry = "A"
    THEN DecodeCEPRequest(s.body).ok /\ ~isValidCEPFormat(DecodeCEPRequest(s.body).CEP)
    ELSE IF s.entry = "B" THEN ~isValidCEP(PathVar(s))
    ELSE s.entry = "L" /\ ~legacyIsValidCEP(PathVar(s))

\* the response of the handler the client of request r called
EntryResp(s) ==
    IF s.entry = "A" THEN s.respA ELSE OrchResp(s)

EntryDone(s) ==
    IF s.entry = "A" THEN s.pcA = "done" ELSE OrchDone(s)

\* C8: a code that fails the format rule is answered 422 "invalid zipcode" and
\* no upstream call is ever made for it: service-a does not call service-b,
\* the orchestration handlers call neither the registry nor the weather provider.
C8_InvalidFormatNoUpstream ==
    \A r \in Requests :
        LET s == req[r]
        IN  FailsFormat(s) =>
                /\ s.calls = <<>>
                /\ s.entry = "A" => s.pcB = "none" /\ ~HasSpan(s, "server-b")
                /\ EntryDone(s) => EntryResp(s) = ErrorResponse(422, "invalid zipcode")

\* service-a has rejected a three-digit code without calling anyone
C8_Witness ==
    \E r \in Requests :
        /\ req[r].entry = "A"
        /\ req[r].body.cep = CepShort
        /\ req[r].pcA = "done"
        /\ req[r].respA = ErrorResponse(422, "invalid zipcode")
        /\ req[r].calls = <<>>

\* the body is a JSON object that carries the code as a string field
CarriesCode(body) ==
    body.top = "object" /\ body.fld = "string"

\* the body does not decode into the request: it is not JSON, its first value
\* is neither an object nor null, or its cep field is neither a string nor null
Undecodable(body) ==
    \/ body.top \in {"notjson", "array"}
    \/ body.top = "object" /\ body.fld = "number"

\* the body decodes but carries no code: null, or an object whose cep field
\* is absent or null
CarriesNoCode(body) ==
    \/ body.top = "null"
    \/ body.top = "object" /\ body.fld \in {"absent", "null"}

\* C9 as stated: every body that is not a JSON object carrying the code as a
\* string field is answered 400 "invalid request body", without validation and
\* without a call to service-b; a well-formed body is never answered 400.
C9_Original ==
    \A r \in Requests :
        LET s == req[r]
        IN  (s.entry = "A" /\ s.pcA = "done") =>
                /\ ~CarriesCode(s.body) =>
                      /\ s.respA = ErrorResponse(400, "invalid request body")
                      /\ s.calls = <<>>
                /\ CarriesCode(s.body) => s.respA.status # 400

\* C9 amended: every body that does not decode is answered 400 "invalid request
\* body", without validation and without a call to service-b; a body that
\* decodes but carries no code is answered 422 "invalid zipcode", also without
\* a call; a well-formed body is never answered 400.
C9_MalformedBody ==
    \A r \in Requests :
        LET s == req[r]
        IN  (s.entry = "A" /\ s.pcA = "done") =>
                /\ Undecodable(s.body) =>
                      /\ s.respA = ErrorResponse(400, "invalid request body")
                      /\ s.calls = <<>>
                      /\ s.pcB = "none"
                      /\ "validation" \notin s.spans[SpanIdx(s, "cep_handler")].attrs
                /\ CarriesNoCode(s.body) =>
                      /\ s.respA = ErrorResponse(422, "invalid zipcode")
                      /\ s.calls = <<>>
                      /\ s.pcB = "none"
                /\ CarriesCode(s.body) => s.respA.status # 400
                /\ s.respA.status = 400 <=> Undecodable(s.body)

\* a body whose cep field is a number has been answered 400
C9_Witness ==
    \E r \in Requests :
        /\ req[r].entry = "A"
        /\ req[r].pcA = "done"
        /\ req[r].body.top = "object"
        /\ req[r].body.fld = "number"
        /\ req[r].respA = ErrorResponse(400, "invalid request body")

\* s, with '-' removed and surrounding whitespace removed, is exactly eight
\* digits: no other character, eight digits, and no whitespace between the
\* first digit and the last
EightDigitsAfterStripping(s) ==
    LET digits == {i \in 1..Len(s) : s[i] \in DigitChars}
    IN  /\ \A i \in 1..Len(s) : s[i] \in DigitChars \cup {"-"} \cup SpaceChars
        /\ Cardinality(digits) = 8
        /\ \A i \in 1..Len(s) :
              s[i] \in SpaceChars =>
                  \/ \A j \in digits : i < j
                  \/ \A j \in digits : j < i

\* C10: each of the three validators accepts s exactly when s, with '-' and
\* surrounding whitespace removed, consists of exactly eight digits; the three
\* agree on every input.
C10_ValidatorsExact ==
    \A k \in 1..Len(vout) : vout[k] = EightDigitsAfterStripping(vin)

\* all three validators have accepted a code written with a hyphen and
\* surrounding whitespace
C10_Witness ==
    /\ Len(vout) = 3
    /\ vout = <<TRUE, TRUE, TRUE>>
    /\ \E i \in 1..Len(vin) : vin[i] = "-"
    /\ vin[1] \in SpaceChars

\* C11: every 200 report of the orchestration handlers carries the Celsius
\* value c of the weather provider unchanged, c * 1.8 + 32 as Fahrenheit and
\* c + 273 as Kelvin (273, not 273.15): 0 gives 32 and 273, 100 gives 212,
\* 25.5 gives 77.9 and 298.5; the report is a function of c alone.
C11_ConversionExact ==
    \A r \in Requests :
        LET s == req[r]
            b == OrchResp(s).body
            c == s.weather.temp
        IN  (OrchDone(s) /\ OrchResp(s).status = 200) =>
                /\ s.weather.out = "ok"
                /\ b.temp_C = c
                /\ 5 * (b.temp_F - 3200) = 9 * 10 * c
                /\ b.temp_K - c = 2730
                /\ c = 0 => b.temp_F = 3200 /\ b.temp_K = 2730
                /\ c = 1000 => b.temp_F = 21200
                /\ c = 255 => b.temp_F = 7790 /\ b.temp_K = 2985
                /\ \A q \in Requests :
                      (OrchDone(req[q]) /\ OrchResp(req[q]).status = 200
                         /\ req[q].weather.temp = c) =>
                          /\ OrchResp(req[q]).body.temp_C = b.temp_C
                          /\ OrchResp(req[q]).body.temp_F = b.temp_F
                          /\ OrchResp(req[q]).body.temp_K = b.temp_K

\* service-b, called directly, has reported 25.5 degrees as 77.9 F and 298.5 K
C11_Witness ==
    \E r \in Requests :
        /\ req[r].entry = "B"
        /\ req[r].pcB = "done"
        /\ req[r].respB.status = 200
        /\ req[r].weather.temp = 255
        /\ req[r].respB.body.temp_F = 7790
        /\ req[r].respB.body.temp_K = 2985

\* the error responses of the input handler and of the orchestration handlers
InputErrors ==
    {ErrorResponse(400, "invalid request body"),
     ErrorResponse(422, "invalid zipcode"),
     ErrorResponse(404, "can not find zipcode"),
     ErrorResponse(500, "internal server error")}

OrchErrors ==
    {ErrorResponse(422, "invalid zipcode"),
     ErrorResponse(404, "can not find zipcode"),
     ErrorResponse(500, "weather service unavailable")}

\* C12: every response of a handler is a 200 or a single-field body
\* {"message": m} whose (status, m) is one of the fixed pairs: for the input
\* handler 400 "invalid request body", 422 "invalid zipcode", 404 "can not find
\* zipcode", 500 "internal server error"; for the orchestration handlers 422,
\* 404 and 500 "weather service unavailable". No other status, message or
\* pairing is written, whatever the providers answered.
C12_FixedErrorBodies ==
    \A r \in Requests :
        LET s == req[r]
        IN  /\ (s.pcA = "done" /\ s.respA.status # 200) =>
                  /\ s.respA \in InputErrors
                  /\ DOMAIN s.respA.body = {"message"}
            /\ (OrchDone(s) /\ OrchResp(s).status # 200) =>
                  /\ OrchResp(s) \in OrchErrors
                  /\ DOMAIN OrchResp(s).body = {"message"}
            /\ s.pcA # "done" => s.respA = NoResp
            /\ ~OrchDone(s) => OrchResp(s) = NoResp

\* the registry answered with an error status, service-b answered 404 and
\* service-a relayed it as 404 with the fixed message
C12_Witness ==
    \E r \in Requests :
        /\ req[r].entry = "A"
        /\ req[r].pcA = "done"
        /\ req[r].cepInfo.out = "status"
        /\ req[r].respB = ErrorResponse(404, "can not find zipcode")
        /\ req[r].respA = ErrorResponse(404, "can not find zipcode")

\* the upstream targets in the order one request can reach them
Targets == <<"service-b", "viacep", "weatherapi">>

\* C13: nothing is retried: for one request the call to service-b, the call to
\* the postal registry and the call to the weather provider are each made at
\* most once, in that order, and a failed attempt has the mapped error response
\* written in the same step, with no further call by the handler that failed.
C13_NoRetry ==
    \A r \in Requests :
        LET s == req[r]
        IN  /\ \A t \in 1..3 : CallsTo(s, Targets[t]) <= 1
            /\ \A i, j \in 1..Len(s.calls) :
                  i < j => \E t, u \in 1..3 :
                              /\ t < u
                              /\ s.calls[i].to = Targets[t]
                              /\ s.calls[j].to = Targets[u]
            /\ s.retB.kind = "err" =>
                  /\ s.pcA = "done"
                  /\ s.respA \in InputErrors
                  /\ CallsTo(s, "service-b") = IF s.recvB.kind = "none" THEN 0 ELSE 1
            /\ s.cepInfo.out \in PostalFailures =>
                  /\ OrchDone(s)
                  /\ OrchResp(s) = ErrorResponse(404, "can not find zipcode")
                  /\ CallsTo(s, "viacep") = IF s.cepInfo.out = "noreq" THEN 0 ELSE 1
                  /\ CallsTo(s, "weatherapi") = 0
            /\ s.weather.out \in WeatherFailures =>
                  /\ OrchDone(s)
                  /\ OrchResp(s) = ErrorResponse(500, "weather service unavailable")
                  /\ CallsTo(s, "viacep") = 1
                  /\ CallsTo(s, "weatherapi") = IF s.weather.out = "noreq" THEN 0 ELSE 1

\* every hop failed once and was tried once: service-a timed out on service-b,
\* whose weather lookup then failed
C13_Witness ==
    \E r \in Requests :
        /\ req[r].entry = "A"
        /\ req[r].recvB.kind = "fail"
        /\ req[r].respA = ErrorResponse(500, "internal server error")
        /\ req[r].weather.out = "transport"
        /\ req[r].respB = ErrorResponse(500, "weather service unavailable")
        /\ Len(req[r].calls) = 3

SpanNames(s) ==
    {s.spans[i].name : i \in 1..Len(s.spans)}

\* the spans of the HTTP instrumentation: one server span per service
\* (otelmux), one client span per HTTP call (otelhttp)
ServerSpans == {"server-a", "server-b"}
ClientSpans == {"client-a", "client-cep", "client-weather"}

\* the spans that stand for an upstream call
UpstreamSpans == {"call_service_b", "get_cep_info", "get_weather_info"} \cup ClientSpans

\* request r went through both services and was answered 200
EndToEndSuccess(s) ==
    s.entry = "A" /\ s.pcA = "done" /\ s.respA.status = 200

\* C14 as stated: the spans of a successful end-to-end request are one handler
\* span per service and one span per upstream call, and nothing else, on one
\* trace; a request rejected at format validation has no upstream-call span.
C14_Original ==
    \A r \in Requests :
        LET s == req[r]
        IN  /\ EndToEndSuccess(s) =>
                  /\ SpanNames(s) = NamedSpans
                  /\ Len(s.spans) = 5
                  /\ \A i, j \in 1..Len(s.spans) : s.spans[i].trace = s.spans[j].trace
            /\ FailsFormat(s) => SpanNames(s) \cap UpstreamSpans = {}

\* C14 amended: among the spans the services start themselves, a successful
\* end-to-end request has exactly one handler span per service and exactly one
\* span per upstream call (call_service_b, get_cep_info, get_weather_info); the
\* HTTP instrumentation adds one server span per service and one client span
\* per HTTP call made, ten spans in all, on one trace; a request rejected at
\* format validation has its handler span and server span and no other.
C14_SpanSet ==
    \A r \in Requests :
        LET s == req[r]
            own == {i \in 1..Len(s.spans) : ~s.spans[i].lib}
            lib == {i \in 1..Len(s.spans) : s.spans[i].lib}
        IN  /\ EndToEndSuccess(s) =>
                  /\ {s.spans[i].name : i \in own} = NamedSpans
                  /\ Cardinality(own) = 5
                  /\ {s.spans[i].name : i \in lib} = ServerSpans \cup ClientSpans
                  /\ Cardinality(lib) = 5
                  /\ Cardinality(lib) = 2 + Len(s.calls)
                  /\ \A i, j \in 1..Len(s.spans) : s.spans[i].trace = s.spans[j].trace
            /\ FailsFormat(s) =>
                  /\ SpanNames(s) \cap UpstreamSpans = {}
                  /\ EntryDone(s) =>
                        /\ s.entry = "A" => SpanNames(s) = {"server-a", "cep_handler"}
                        /\ s.entry = "B" => SpanNames(s) = {"server-b", "weather_handler"}
                        /\ Len(s.spans) = IF s.entry = "L" THEN 0 ELSE 2

\* a successful end-to-end request has left ten spans
C14_Witness ==
    \E r \in Requests :
        /\ EndToEndSuccess(req[r])
        /\ Len(req[r].spans) = 10
        /\ Len(req[r].calls) = 3

\* errors recorded on the span called name of request s (0 when there is none)
ErrorsOn(s, name) ==
    IF HasSpan(s, name) THEN s.spans[SpanIdx(s, name)].errs ELSE 0

\* position of the first event e in the log of s (0 when there is none)
FirstEvent(s, e) ==
    IF \E i \in 1..Len(s.events) : s.events[i] = e
    THEN CHOOSE i \in 1..Len(s.events) :
             /\ s.events[i] = e
             /\ \A j \in 1..(i - 1) : s.events[j] # e
    ELSE 0

\* C15: every error met while handling a request is recorded on its enclosing
\* span before the status is written: every failure path of callServiceB,
\* getCEPInfo and getWeatherInfo records an error on that operation's own span,
\* and every rejection or failure path of cepHandler and weatherHandler records
\* an error on the handler span, ahead of the write of the response.
C15_ErrorsRecorded ==
    \A r \in Requests :
        LET s == req[r]
        IN  s.entry \in {"A", "B"} =>
                /\ s.retB.kind = "err" => ErrorsOn(s, "call_service_b") >= 1
                /\ s.cepInfo.out \in PostalFailures => ErrorsOn(s, "get_cep_info") >= 1
                /\ s.weather.out \in WeatherFailures => ErrorsOn(s, "get_weather_info") >= 1
                /\ (s.pcA = "done" /\ s.respA.status # 200) =>
                      /\ ErrorsOn(s, "cep_handler") >= 1
                      /\ FirstEvent(s, <<"error", "cep_handler">>)
                           < FirstEvent(s, <<"write", "service-a">>)
                /\ (s.pcB = "done" /\ s.respB.status # 200) =>
                      /\ ErrorsOn(s, "weather_handler") >= 1
                      /\ FirstEvent(s, <<"error", "weather_handler">>)
                           < FirstEvent(s, <<"write", "service-b">>)

\* the registry set its not-found flag: weatherHandler recorded the error and
\* answered 404, getCEPInfo recorded nothing on its own span
C15_Witness ==
    \E r \in Requests :
        /\ req[r].entry = "B"
        /\ req[r].cepInfo.out = "erro"
        /\ ErrorsOn(req[r], "get_cep_info") = 0
        /\ ErrorsOn(req[r], "weather_handler") = 1
        /\ req[r].respB = ErrorResponse(404, "can not find zipcode")

\* the registry answered 200 with a payload that decodes, without the
\* not-found flag and with a locality
RegistryFound(out) ==
    /\ out.kind = "json"
    /\ out.status = 200
    /\ ~out.erro
    /\ out.localidade # <<>>

\* C16: the postal lookup returns success only when the registry answered 200
\* with a decodable payload whose not-found flag is unset and whose locality is
\* non-empty; the flag alone or the empty locality alone yields the not-found
\* error. So the weather provider is only ever asked for a non-empty locality,
\* the one the postal lookup of the same request returned.
C16_PostalSuccess ==
    \A r \in Requests :
        LET s == req[r]
        IN  /\ s.cepInfo.kind = "ok" <=> RegistryFound(s.cepResp)
            /\ s.cepInfo.kind = "ok" => s.cepInfo.localidade = s.cepResp.localidade
            /\ (s.cepResp.kind = "json" /\ (s.cepResp.erro \/ s.cepResp.localidade = <<>>)) =>
                  /\ s.cepInfo.kind = "err"
                  /\ s.cepInfo.err = <<"CEP", "nao", "encontrado">>
                  /\ OrchResp(s) = ErrorResponse(404, "can not find zipcode")
            /\ \A i \in 1..Len(s.calls) :
                  s.calls[i].to = "weatherapi" =>
                      /\ RegistryFound(s.cepResp)
                      /\ s.cepResp.localidade # <<>>
                      /\ s.calls[i].arg # <<>>
                      /\ s.calls[i].arg = QueryEscape(s.cepResp.localidade)

\* the registry answered without the flag and without a locality: not found,
\* and the weather provider was not asked
C16_Witness ==
    \E r \in Requests :
        /\ req[r].cepResp.kind = "json"
        /\ ~req[r].cepResp.erro
        /\ req[r].cepResp.localidade = <<>>
        /\ req[r].cepInfo.kind = "err"
        /\ CallsTo(req[r], "weatherapi") = 0
        /\ OrchDone(req[r])

\* exactly eight decimal digits and nothing else
IsEightDigits(c) ==
    /\ Len(c) = CEPDigits
    /\ \A i \in 1..Len(c) : c[i] \in DigitChars

\* C17: the code handed on downstream is the validated eight-digit code: what
\* the input handler puts in the URL of service-b and what the postal lookup
\* puts in the URL of the registry is exactly eight decimal digits, for every
\* accepted input, also one written with a hyphen or surrounding whitespace.
C17_EightDigitsDownstream ==
    \A r \in Requests :
        \A i \in 1..Len(req[r].calls) :
            req[r].calls[i].to \in {"service-b", "viacep"} =>
                IsEightDigits(req[r].calls[i].arg)

\* a code written with a leading space went through both hops as written
C17_Witness ==
    \E r \in Requests :
        /\ req[r].entry = "A"
        /\ req[r].body.cep = CepSpaced
        /\ \E i, j \in 1..Len(req[r].calls) :
              /\ req[r].calls[i] = [to |-> "service-b", arg |-> CepSpaced]
              /\ req[r].calls[j] = [to |-> "viacep", arg |-> CepSpaced]

\* the span called child of request s exists and its parent is the span parent
ChildOf(s, child, parent) ==
    /\ HasSpan(s, parent)
    /\ s.spans[SpanIdx(s, child)].parent = s.spans[SpanIdx(s, parent)].id
    /\ s.spans[SpanIdx(s, child)].trace = s.spans[SpanIdx(s, parent)].trace

\* C18: the parent links follow the calls: weather_handler is the direct parent
\* of get_cep_info and of get_weather_info, which are siblings (neither is the
\* parent of the other), and cep_handler is the parent of call_service_b, on
\* every path on which those spans are started.
C18_ParentLinks ==
    \A r \in Requests :
        LET s == req[r]
        IN  /\ HasSpan(s, "get_cep_info") => ChildOf(s, "get_cep_info", "weather_handler")
            /\ HasSpan(s, "get_weather_info") =>
                  /\ ChildOf(s, "get_weather_info", "weather_handler")
                  /\ HasSpan(s, "get_cep_info")
                  /\ ~ChildOf(s, "get_weather_info", "get_cep_info")
                  /\ ~ChildOf(s, "get_cep_info", "get_weather_info")
            /\ HasSpan(s, "call_service_b") => ChildOf(s, "call_service_b", "cep_handler")

\* all three child spans of one request exist under their handlers
C18_Witness ==
    \E r \in Requests :
        /\ HasSpan(req[r], "call_service_b")
        /\ HasSpan(req[r], "get_cep_info")
        /\ HasSpan(req[r], "get_weather_info")
        /\ ChildOf(req[r], "get_weather_info", "weather_handler")
        /\ ChildOf(req[r], "call_service_b", "cep_handler")

\* the span called name of request s is closed and carries an error
ClosedWithError(s, name) ==
    /\ HasSpan(s, name)
    /\ s.spans[SpanIdx(s, name)].ends = 1
    /\ s.spans[SpanIdx(s, name)].errs >= 1

\* C19: when the inbound request is canceled while an upstream call is in
\* flight, the cancellation reaches that call: it fails as a transport failure
\* and its span is closed and marked with the error, not left open; canceling
\* at the input handler also cancels a lookup in flight in service-b.
C19_CancellationReachesCalls ==
    \A r \in Requests :
        LET s == req[r]
        IN  /\ (s.ctxA = "canceled" /\ s.pcA = "done") =>
                  /\ s.recvB.kind = "fail"
                  /\ s.retB.kind = "err"
                  /\ ClosedWithError(s, "call_service_b")
                  /\ s.pcB \in {"cep", "weather"} => s.ctxB = "canceled"
            /\ (s.ctxB = "canceled" /\ s.pcB = "done") =>
                  IF s.weather.kind # "none"
                  THEN s.weather.out = "transport" /\ ClosedWithError(s, "get_weather_info")
                  ELSE s.cepInfo.out = "transport" /\ ClosedWithError(s, "get_cep_info")

\* the client of service-a went away during the postal lookup: the lookup
\* failed and its span carries the error, the span of the call to service-b
\* was closed without one
C19_Witness ==
    \E r \in Requests :
        /\ req[r].ctxA = "canceled"
        /\ req[r].ctxB = "canceled"
        /\ req[r].pcA = "done"
        /\ req[r].pcB = "done"
        /\ req[r].cepInfo.out = "transport"
        /\ ClosedWithError(req[r], "get_cep_info")
        /\ req[r].spans[SpanIdx(req[r], "call_service_b")].ends = 1
        /\ ErrorsOn(req[r], "call_service_b") = 0

Reverse(q) ==
    [i \in 1..Len(q) |-> q[Len(q) + 1 - i]]

\* the names of the spans in names for which the log ev has an event of kind k,
\* in the order of the log
NamesOf(ev, k, names) ==
    LET sel == SelectSeq(ev, LAMBDA e : e[1] = k /\ e[2] \in names)
    IN  [i \in 1..Len(sel) |-> sel[i][2]]

\* the start and end events of the spans in names, in the order of the log
Brackets(ev, names) ==
    SelectSeq(ev, LAMBDA e : e[1] \in {"start", "end"} /\ e[2] \in names)

\* every end event closes the span opened last among those still open
RECURSIVE Nested(_, _)
Nested(ev, open) ==
    IF ev = <<>> THEN TRUE
    ELSE IF Head(ev)[1] = "start" THEN Nested(Tail(ev), Append(open, Head(ev)[2]))
    ELSE /\ open # <<>>
         /\ open[Len(open)] = Head(ev)[2]
         /\ Nested(Tail(ev), SubSeq(open, 1, Len(open) - 1))

\* every handler of request s has returned
AllReturned(s) ==
    s.pcA \in {"none", "done"} /\ s.pcB \in {"none", "done"} /\ s.pcL \in {"none", "done"}

SpansOfA == {"server-a", "cep_handler", "call_service_b", "client-a"}
SpansOfB == {"server-b", "weather_handler", "get_cep_info", "client-cep",
             "get_weather_info", "client-weather"}

\* C20 as stated: once a request is over, the sequence of the span-end events
\* of cep_handler, call_service_b, weather_handler, get_cep_info and
\* get_weather_info is the exact reverse of the sequence of their span-start
\* events, on the success path and on every early-exit path.
C20_Original ==
    \A r \in Requests :
        LET s == req[r]
        IN  AllReturned(s) =>
                NamesOf(s.events, "end", NamedSpans)
                  = Reverse(NamesOf(s.events, "start", NamedSpans))

\* C20 amended: within each service the spans are nested: a span closes only
\* after every span opened inside it has closed, on every path; the two
\* lookups are siblings in sequence, get_cep_info closes before
\* get_weather_info opens; and when callServiceB gets a response, the spans of
\* service-b have all closed before call_service_b closes, so the whole
\* request is nested.
C20_SpansNested ==
    \A r \in Requests :
        LET s == req[r]
        IN  /\ Nested(Brackets(s.events, SpansOfA), <<>>)
            /\ Nested(Brackets(s.events, SpansOfB), <<>>)
            /\ HasSpan(s, "get_weather_info") =>
                  FirstEvent(s, <<"end", "get_cep_info">>)
                    < FirstEvent(s, <<"start", "get_weather_info">>)
            /\ s.recvB.kind = "resp" =>
                  /\ Nested(Brackets(s.events, SpansOfA \cup SpansOfB), <<>>)
                  /\ FirstEvent(s, <<"end", "weather_handler">>)
                       < FirstEvent(s, <<"end", "call_service_b">>)
            /\ (AllReturned(s) /\ s.recvB.kind # "fail") =>
                  Len(NamesOf(s.events, "end", SpansOfA \cup SpansOfB)) = Len(s.spans)

\* a successful end-to-end request: the lookup spans closed in the order they
\* were opened, the handler spans in reverse
C20_Witness ==
    \E r \in Requests :
        /\ EndToEndSuccess(req[r])
        /\ NamesOf(req[r].events, "start", NamedSpans)
             = <<"cep_handler", "call_service_b", "weather_handler", "get_cep_info", "get_weather_info">>
        /\ NamesOf(req[r].events, "end", NamedSpans)
             = <<"get_cep_info", "get_weather_info", "weather_handler", "call_service_b", "cep_handler">>

====
